---------------------------- MODULE Spec2Model ----------------------------
(***************************************************************************)
(* Model of vxrail_size_estimator.py: the size-estimation function          *)
(* calculate_estimate, the per-VM collector get_vm_storage_info, the vSAN   *)
(* policy detection and the batch loop of main.                             *)
(*                                                                          *)
(* Sizes and ratios are Python floats in the source.  The model computes    *)
(* with exact rationals [n |-> numerator, d |-> denominator], d > 0, in     *)
(* lowest terms; round(x, k) and the ":.2f" format are round-half-to-even   *)
(* on the exact value, which is what Python does on the value it holds.     *)
(* Byte counts are modelled in MiB, so bytes / 1024**3 is mib / 1024.       *)
(***************************************************************************)
EXTENDS Integers, Sequences, FiniteSets, TLC

-----------------------------------------------------------------------------
(* Rational arithmetic standing for the float operators of the source.      *)

Abs(x) == IF x < 0 THEN 0 - x ELSE x

RECURSIVE GCD(_, _)
GCD(a, b) == IF b = 0 THEN a ELSE GCD(b, a % b)

\* The float literal n/d, normalised (d > 0).
R(n, d) ==
    LET g == GCD(Abs(n), d)
    IN  IF g = 0 THEN [n |-> 0, d |-> 1] ELSE [n |-> n \div g, d |-> d \div g]

Zero == R(0, 1)
One == R(1, 1)

\* a * b
RMul(a, b) ==
    LET g1 == GCD(Abs(a.n), b.d)
        g2 == GCD(Abs(b.n), a.d)
    IN  IF a.n = 0 \/ b.n = 0 THEN Zero
        ELSE [n |-> (a.n \div g1) * (b.n \div g2), d |-> (a.d \div g2) * (b.d \div g1)]

\* a / b, defined for b # 0 (the callers test for the ZeroDivisionError).
RDiv(a, b) ==
    IF b.n > 0 THEN RMul(a, [n |-> b.d, d |-> b.n])
    ELSE RMul(a, [n |-> 0 - b.d, d |-> 0 - b.n])

\* a + b
RAdd(a, b) ==
    LET g == GCD(a.d, b.d)
    IN  R(a.n * (b.d \div g) + b.n * (a.d \div g), (a.d \div g) * b.d)

\* a - b
RSub(a, b) == RAdd(a, [n |-> 0 - b.n, d |-> b.d])

\* a < b
RLess(a, b) == RSub(a, b).n < 0

\* a > b
RGreater(a, b) == RLess(b, a)

\* round(x, ndigits) with 10^ndigits = scale.  When the exact value lies
\* halfway between two results, the float the program holds lies just below
\* or just above it (or on it, and then Python rounds half to even): tie is
\* the direction taken, 0 = down, 1 = up.
round(x, scale, tie) ==
    LET y == RMul(x, R(scale, 1))
        q == y.n \div y.d
        r == y.n % y.d
        up == IF 2 * r > y.d THEN 1
              ELSE IF 2 * r < y.d THEN 0
              ELSE tie
    IN  R(q + up, scale)

\* f"{x:.2f}": the value printed with two decimals (half to even on a tie).
Fmt2(x) == round(x, 100, (RMul(x, R(100, 1)).n \div RMul(x, R(100, 1)).d) % 2)

\* The directions of the three round() calls of one calculate_estimate call.
FloatTies == [estimated : {0, 1}, logical : {0, 1}, pct : {0, 1}]

-----------------------------------------------------------------------------
(* Module-level tables.                                                     *)

RAID_OVERHEAD ==
    [p \in {"RAID-1 (FTT=1)", "RAID-1 (FTT=2)", "RAID-1 (FTT=3)",
            "RAID-5 (FTT=1)", "RAID-6 (FTT=2)", "None"} |->
        CASE p = "RAID-1 (FTT=1)" -> R(2, 1)
          [] p = "RAID-1 (FTT=2)" -> R(3, 1)
          [] p = "RAID-1 (FTT=3)" -> R(4, 1)
          [] p = "RAID-5 (FTT=1)" -> R(133, 100)
          [] p = "RAID-6 (FTT=2)" -> R(3, 2)
          [] p = "None" -> R(1, 1)]

ORGANIC_FACTORS ==
    [trim_unmap_not_enabled |-> R(85, 100),
     dedup_expansion_low    |-> R(12, 10),
     dedup_expansion_medium |-> R(14, 10),
     dedup_expansion_high   |-> R(16, 10),
     compression_expansion  |-> R(125, 100),
     vm_swap_overhead       |-> R(95, 100),
     snapshot_overhead      |-> R(90, 100)]

\* VSANConfig(cluster_name) with the dataclass defaults.
VSANConfig(cluster_name) ==
    [cluster_name        |-> cluster_name,
     is_vsan             |-> FALSE,
     is_vxrail           |-> FALSE,
     raid_policy         |-> "RAID-1 (FTT=1)",
     raid_overhead       |-> R(2, 1),
     dedup_enabled       |-> FALSE,
     compression_enabled |-> FALSE,
     dedup_ratio         |-> One,
     compression_ratio   |-> One,
     trim_unmap_enabled  |-> TRUE]

-----------------------------------------------------------------------------
(* calculate_estimate                                                       *)

\* One element of notes_parts: the text and the number formatted into it
\* (Zero when the text has no number).
Note(text, val) == [text |-> text, val |-> val]

\* A call that ends in an exception instead of a return value.
Raised(exc) ==
    [status |-> exc, logical_gb |-> Zero, estimated_gb |-> Zero,
     change_pct |-> Zero, notes |-> <<>>]

\* Variant: the overhead is multiplied in instead of divided out.
RaidRemoved_Multiplies(used_gb, config) == RMul(used_gb, config.raid_overhead)

\* Step 2: logical_size = size / config.raid_overhead
RaidRemoved(used_gb, config) == RDiv(used_gb, config.raid_overhead)

\* Variant: the adjustment is applied when reclaim IS enabled.
logical_size_TrimWhenEnabled(used_gb, config) ==
    IF config.trim_unmap_enabled
    THEN RMul(RaidRemoved(used_gb, config), ORGANIC_FACTORS.trim_unmap_not_enabled)
    ELSE RaidRemoved(used_gb, config)

\* Step 3: the TRIM/UNMAP adjustment
logical_size(used_gb, config) ==
    IF ~config.trim_unmap_enabled
    THEN RMul(RaidRemoved(used_gb, config), ORGANIC_FACTORS.trim_unmap_not_enabled)
    ELSE RaidRemoved(used_gb, config)

\* Variant: the measured ratio is used whatever its value.
DedupExpansion_AlwaysMeasured(config) == config.dedup_ratio

\* expansion of the dedup branch
DedupExpansion(config) ==
    IF RGreater(config.dedup_ratio, One)
    THEN config.dedup_ratio
    ELSE ORGANIC_FACTORS.dedup_expansion_medium

\* expansion of the compression branch
CompressExpansion(config) ==
    IF RGreater(config.compression_ratio, One)
    THEN config.compression_ratio
    ELSE ORGANIC_FACTORS.compression_expansion

\* Variant: the expansions are applied without looking at the enabled flags.
Expanded_IgnoresEnabled(used_gb, config) ==
    RMul(RMul(logical_size(used_gb, config), DedupExpansion(config)),
         CompressExpansion(config))

\* Step 4: estimated_size after the dedup and compression expansion
Expanded(used_gb, config) ==
    LET s0 == logical_size(used_gb, config)
        s1 == IF config.dedup_enabled THEN RMul(s0, DedupExpansion(config)) ELSE s0
    IN  IF config.compression_enabled THEN RMul(s1, CompressExpansion(config)) ELSE s1

\* Variant: the swap deflation is left out.
estimated_size_NoSwap(used_gb, has_snapshots, config) ==
    IF has_snapshots
    THEN RMul(Expanded(used_gb, config), ORGANIC_FACTORS.snapshot_overhead)
    ELSE Expanded(used_gb, config)

\* Variant: the snapshot deflation is applied to every VM.
estimated_size_SnapshotAlways(used_gb, has_snapshots, config) ==
    RMul(RMul(Expanded(used_gb, config), ORGANIC_FACTORS.vm_swap_overhead),
         ORGANIC_FACTORS.snapshot_overhead)

\* Step 5: swap and snapshot adjustments
estimated_size(used_gb, has_snapshots, config) ==
    LET s2 == RMul(Expanded(used_gb, config), ORGANIC_FACTORS.vm_swap_overhead)
    IN  IF has_snapshots THEN RMul(s2, ORGANIC_FACTORS.snapshot_overhead) ELSE s2

\* notes_parts at the end of the call
notes_parts(has_snapshots, config) ==
    LET n1 == <<Note("Primary data (/ RAID)", Fmt2(config.raid_overhead))>>
        n2 == IF ~config.trim_unmap_enabled
              THEN Append(n1, Note("TRIM/UNMAP adj", Zero)) ELSE n1
        n3 == IF config.dedup_enabled
              THEN Append(n2, Note("Dedup expand x", Fmt2(DedupExpansion(config)))) ELSE n2
        n4 == IF config.compression_enabled
              THEN Append(n3, Note("Compress expand x", Fmt2(CompressExpansion(config)))) ELSE n3
    IN  IF has_snapshots THEN Append(n4, Note("Snapshot consolidation", Zero)) ELSE n4

\* Variant: the change is taken against the estimate instead of the used size.
change_pct_OfEstimated(estimated_gb, used_gb, tie) ==
    IF RGreater(used_gb, Zero) /\ estimated_gb.n # 0
    THEN round(RMul(RDiv(RSub(estimated_gb, used_gb), estimated_gb), R(100, 1)), 10, tie)
    ELSE Zero

\* change_pct = round((estimated_gb - used_gb) / used_gb * 100, 1) if used_gb > 0 else 0
change_pct(estimated_gb, used_gb, tie) ==
    IF RGreater(used_gb, Zero)
    THEN round(RMul(RDiv(RSub(estimated_gb, used_gb), used_gb), R(100, 1)), 10, tie)
    ELSE Zero

\* The division by config.raid_overhead raises ZeroDivisionError when it is 0.
calculate_estimate(used_gb, has_snapshots, config, fp) ==
    IF config.raid_overhead.n = 0
    THEN Raised("ZeroDivisionError")
    ELSE LET estimated_gb == round(estimated_size(used_gb, has_snapshots, config), 100,
                                   fp.estimated)
             logical_gb == round(logical_size(used_gb, config), 100, fp.logical)
         IN  [status       |-> "ok",
              logical_gb   |-> logical_gb,
              estimated_gb |-> estimated_gb,
              change_pct   |-> change_pct(estimated_gb, used_gb, fp.pct),
              notes        |-> notes_parts(has_snapshots, config)]

-----------------------------------------------------------------------------
(* Detection of the vSAN configuration of a cluster.                        *)
(* A cluster (vim.ClusterComputeResource) is a record of what its remote    *)
(* properties answer:                                                       *)
(*   configurationEx : "ok" or "none"                                       *)
(*   vsan_enabled    : vsanConfigInfo is set and enabled                    *)
(*   vxrail          : a host name or the cluster name contains 'vxrail'    *)
(*   de_config       : "none", "raises", or "ok" with dedupEnabled and      *)
(*                     compressionEnabled                                   *)
(*   ftt             : hostFailuresToTolerate, -1 when the attribute is     *)
(*                     missing                                              *)
(*   spaceEfficiency : erasure coding                                       *)
(*   policy_raises   : reading the default policy raises                    *)
(*   space_report    : "ok" with dedupRatio and compressionRatio (Zero when *)
(*                     not reported), "raises", or "none" when there is no  *)
(*                     vSAN stub (SDK missing) or the answer is empty       *)

detect_default_raid_policy(cluster) ==
    LET policy ==
            IF cluster.policy_raises \/ cluster.ftt = 0 - 1 THEN "default"
            ELSE IF cluster.spaceEfficiency
                 THEN CASE cluster.ftt = 1 -> "RAID-5 (FTT=1)"
                        [] cluster.ftt = 2 -> "RAID-6 (FTT=2)"
                        [] OTHER -> "default"
                 ELSE CASE cluster.ftt = 1 -> "RAID-1 (FTT=1)"
                        [] cluster.ftt = 2 -> "RAID-1 (FTT=2)"
                        [] cluster.ftt = 3 -> "RAID-1 (FTT=3)"
                        [] OTHER -> "default"
    IN  IF policy = "default"
        THEN <<"RAID-1 (FTT=1)", R(2, 1)>>
        ELSE <<policy, RAID_OVERHEAD[policy]>>

query_vsan_capacity_details(cluster, config) ==
    IF cluster.space_report # "ok" THEN config
    ELSE [config EXCEPT
            !.dedup_ratio = IF cluster.dedupRatio.n # 0
                            THEN cluster.dedupRatio ELSE config.dedup_ratio,
            !.compression_ratio = IF cluster.compressionRatio.n # 0
                                  THEN cluster.compressionRatio ELSE config.compression_ratio]

detect_vsan_config(cluster) ==
    LET config == VSANConfig(cluster.name)
        c1 == [config EXCEPT !.is_vsan = TRUE, !.is_vxrail = cluster.vxrail]
        c2 == IF cluster.de_config = "ok"
              THEN [c1 EXCEPT !.dedup_enabled = cluster.dedupEnabled,
                              !.compression_enabled = cluster.compressionEnabled]
              ELSE c1
        rp == detect_default_raid_policy(cluster)
        c3 == [c2 EXCEPT !.raid_policy = rp[1], !.raid_overhead = rp[2]]
    IN  IF cluster.configurationEx # "ok" \/ ~cluster.vsan_enabled
        THEN config
        ELSE query_vsan_capacity_details(cluster, c3)

-----------------------------------------------------------------------------
(* Per-VM collection.                                                       *)
(* A VM (vim.VirtualMachine) is a record of what its remote properties      *)
(* answer:                                                                  *)
(*   name       : code of a one-letter name, 2 * letter + (1 if upper case) *)
(*   config     : "ok" or "none";  template : config.template               *)
(*   poweredOn  : runtime.powerState = poweredOn                            *)
(*   cluster    : name of the owning cluster, "" when the owner of the      *)
(*                resource pool is not a cluster                            *)
(*   snapshot   : vm.snapshot is set                                        *)
(*   storage    : "ok", "none" or "raises" (reading the usage raises)       *)
(*   perDatastoreUsage : sequence of [committed, uncommitted] in MiB        *)
(*   summary    : "ok", "none" or "raises";  summary_committed,             *)
(*                summary_uncommitted in MiB                                *)

\* str.lower() on a one-letter name
lower(name) == name - (name % 2)

\* bytes / (1024**3), with the byte count in MiB
ToGB(mib) == R(mib, 1024)

RECURSIVE SumUsage(_, _)
SumUsage(usage, field) ==
    IF usage = <<>> THEN 0
    ELSE (IF field = "committed" THEN Head(usage).committed
          ELSE Head(usage).committed + Head(usage).uncommitted)
         + SumUsage(Tail(usage), field)

VMInfo(name, cluster) ==
    [name |-> name, cluster |-> cluster, provisioned_gb |-> Zero, used_gb |-> Zero,
     logical_gb |-> Zero, estimated_gb |-> Zero, change_pct |-> Zero,
     has_snapshots |-> FALSE, notes |-> <<>>]

\* The result is [status, info]: status "ok" with the VMInfo, "none" for a
\* None return, or the name of the exception that leaves the function.
get_vm_storage_info(vm, configs, fp) ==
    LET vm_info == [VMInfo(vm.name, vm.cluster) EXCEPT !.has_snapshots = vm.snapshot]
        provisioned == IF vm.storage = "ok" THEN SumUsage(vm.perDatastoreUsage, "provisioned")
                       ELSE IF vm.storage = "raises" /\ vm.summary = "ok"
                            THEN vm.summary_committed + vm.summary_uncommitted
                            ELSE 0
        committed == IF vm.storage = "ok" THEN SumUsage(vm.perDatastoreUsage, "committed")
                     ELSE IF vm.storage = "raises" /\ vm.summary = "ok"
                          THEN vm.summary_committed
                          ELSE 0
        sized == [vm_info EXCEPT !.provisioned_gb = ToGB(provisioned),
                                 !.used_gb = ToGB(committed)]
        plain(note) == [sized EXCEPT !.logical_gb = sized.used_gb,
                                     !.estimated_gb = sized.used_gb,
                                     !.change_pct = Zero,
                                     !.notes = <<Note(note, Zero)>>]
        e == calculate_estimate(sized.used_gb, sized.has_snapshots, configs[vm.cluster], fp)
    IN  IF vm.config = "none" THEN [status |-> "none", info |-> vm_info]
        ELSE IF vm.storage = "raises" /\ vm.summary = "raises"
        THEN [status |-> "Exception", info |-> vm_info]
        ELSE IF vm.cluster \in DOMAIN configs
        THEN IF configs[vm.cluster].is_vsan
             THEN IF e.status = "ok"
                  THEN [status |-> "ok",
                        info |-> [sized EXCEPT !.logical_gb = e.logical_gb,
                                               !.estimated_gb = e.estimated_gb,
                                               !.change_pct = e.change_pct,
                                               !.notes = e.notes]]
                  ELSE [status |-> e.status, info |-> sized]
             ELSE [status |-> "ok", info |-> plain("Not on vSAN")]
        ELSE [status |-> "ok", info |-> plain("Not on vSAN cluster")]

\* results.sort(key=lambda x: x.name.lower()): a stable sort.
RECURSIVE Insert(_, _)
Insert(sorted, x) ==
    IF sorted = <<>> THEN <<x>>
    ELSE IF lower(Head(sorted).name) <= lower(x.name)
         THEN <<Head(sorted)>> \o Insert(Tail(sorted), x)
         ELSE <<x>> \o sorted

RECURSIVE SortByName(_)
SortByName(seq) ==
    IF seq = <<>> THEN <<>>
    ELSE Insert(SortByName(SubSeq(seq, 1, Len(seq) - 1)), seq[Len(seq)])

-----------------------------------------------------------------------------
(* Bounds and input sets.                                                   *)

\* Longest list of VMs and of clusters the inventory returns.
MaxVMs == 2
MaxClusters == 1

\* Reported (used) sizes in GB: zero, the smallest size that prints, an exact
\* rounding tie, sizes with more than two decimals, round sizes.
UsedValues == {R(0, 1), R(1, 100), R(1, 8), R(1, 3), R(12345, 1000), R(100, 1),
               R(1000, 1)}

\* raid_overhead values: the table's values and values outside the domain.
RaidValues == {R(0 - 1, 1), R(0, 1), R(1, 2), R(1, 1), R(133, 100), R(3, 2),
               R(2, 1), R(3, 1), R(4, 1)}

\* dedup_ratio / compression_ratio values: absent (1.0), measured, and
\* values outside the domain.
DedupValues == {R(0 - 1, 1), R(0, 1), R(1, 1), R(12, 10), R(3, 2)}
CompressValues == {R(0, 1), R(1, 1), R(13, 10)}

\* The VSANConfig objects a caller of calculate_estimate can construct.
Configs ==
    {[VSANConfig("c") EXCEPT !.is_vsan = TRUE,
                             !.raid_overhead = ro,
                             !.dedup_enabled = de,
                             !.compression_enabled = ce,
                             !.dedup_ratio = dr,
                             !.compression_ratio = cr,
                             !.trim_unmap_enabled = tu] :
        ro \in RaidValues, de \in BOOLEAN, ce \in BOOLEAN,
        dr \in DedupValues, cr \in CompressValues, tu \in BOOLEAN}

\* Clusters of the inventory.
ClusterBase ==
    [name |-> "", configurationEx |-> "ok", vsan_enabled |-> TRUE, vxrail |-> FALSE,
     de_config |-> "none", dedupEnabled |-> FALSE, compressionEnabled |-> FALSE,
     ftt |-> 1, spaceEfficiency |-> FALSE, policy_raises |-> FALSE,
     space_report |-> "none", dedupRatio |-> Zero, compressionRatio |-> Zero]

ClusterKinds ==
    { \* VxRail, mirrored FTT=1, no space efficiency
      [ClusterBase EXCEPT !.vxrail = TRUE],
      \* erasure coding FTT=1, dedup and compression on, dedup ratio measured
      [ClusterBase EXCEPT !.spaceEfficiency = TRUE, !.de_config = "ok",
                          !.dedupEnabled = TRUE, !.compressionEnabled = TRUE,
                          !.space_report = "ok", !.dedupRatio = R(3, 2)],
      \* erasure coding with FTT=3, dedup on, nothing measured
      [ClusterBase EXCEPT !.ftt = 3, !.spaceEfficiency = TRUE, !.de_config = "ok",
                          !.dedupEnabled = TRUE, !.space_report = "raises"],
      \* triple mirror, dedup off but a dedup ratio reported, policy unreadable
      [ClusterBase EXCEPT !.ftt = 2, !.space_report = "ok", !.dedupRatio = R(12, 10),
                          !.compressionRatio = R(13, 10), !.de_config = "raises"],
      \* no FTT attribute, policy read raises
      [ClusterBase EXCEPT !.ftt = 0 - 1, !.policy_raises = TRUE],
      \* not a vSAN cluster
      [ClusterBase EXCEPT !.vsan_enabled = FALSE] }

ClusterName(k) == IF k = 1 THEN "cluster-1" ELSE IF k = 2 THEN "cluster-2" ELSE "cluster-n"

\* VMs of the inventory.
VMBase ==
    [name |-> 2, config |-> "ok", template |-> FALSE, poweredOn |-> TRUE,
     cluster |-> ClusterName(1), snapshot |-> FALSE, storage |-> "ok",
     perDatastoreUsage |-> <<[committed |-> 102400, uncommitted |-> 51200]>>,
     summary |-> "ok", summary_committed |-> 102400, summary_uncommitted |-> 51200]

VMKinds(last) ==
    { VMBase,
      \* snapshots, two datastores, upper-case name
      [VMBase EXCEPT !.name = 5, !.snapshot = TRUE,
                     !.perDatastoreUsage = <<[committed |-> 12800, uncommitted |-> 0],
                                             [committed |-> 341, uncommitted |-> 1024]>>],
      \* a template
      [VMBase EXCEPT !.name = 9, !.template = TRUE, !.poweredOn = FALSE],
      \* powered off, on the last cluster of the inventory
      [VMBase EXCEPT !.name = 8, !.poweredOn = FALSE, !.cluster = last],
      \* no config
      [VMBase EXCEPT !.name = 3, !.config = "none"],
      \* on a standalone host, nothing written
      [VMBase EXCEPT !.name = 4, !.cluster = "", !.perDatastoreUsage = <<>>],
      \* usage read raises, summary answers
      [VMBase EXCEPT !.name = 7, !.storage = "raises", !.summary_committed = 2048],
      \* usage read raises and so does the summary
      [VMBase EXCEPT !.name = 10, !.storage = "raises", !.summary = "raises"] }

\* The sequences over S of length n, and of length at most n.
RECURSIVE SeqsOfLen(_, _)
SeqsOfLen(S, n) ==
    IF n = 0 THEN {<<>>}
    ELSE {Append(s, x) : s \in SeqsOfLen(S, n - 1), x \in S}

SeqsUpTo(S, n) == UNION {SeqsOfLen(S, k) : k \in 0..n}

NoRet == Raised("pending")
NoCall == [used_gb |-> Zero, has_snapshots |-> FALSE, config |-> VSANConfig("")]

-----------------------------------------------------------------------------
VARIABLES
    call,            \* the arguments of the calculate_estimate call
    ret,             \* what the call produced
    epc,             \* function level: "call" before the call, "return" after it
    args,            \* main: include_templates, include_powered_off
    clusters,        \* main: what get_all_clusters returns
    vms,             \* main: what get_all_vms returns
    vsan_configs,    \* main: cluster name -> VSANConfig
    ci,              \* main: index of the next cluster to detect
    i,               \* main: index of the next VM to process
    results,
    total_used,
    total_logical,
    total_estimated,
    pc               \* main: "clusters", "vms", "done", "exception"; "idle"

batch == <<args, clusters, vms, vsan_configs, ci, i, results, total_used,
           total_logical, total_estimated, pc>>
vars == <<call, ret, epc, args, clusters, vms, vsan_configs, ci, i, results,
          total_used, total_logical, total_estimated, pc>>

EmptyMap == [x \in {} |-> NoCall.config]

-----------------------------------------------------------------------------
(* Function level: one call of calculate_estimate on constructed inputs.    *)

EstInit ==
    /\ call \in [used_gb : UsedValues, has_snapshots : BOOLEAN, config : Configs]
    /\ ret = NoRet
    /\ epc = "call"
    /\ args = [include_templates |-> FALSE, include_powered_off |-> FALSE]
    /\ clusters = <<>>
    /\ vms = <<>>
    /\ vsan_configs = EmptyMap
    /\ ci = 1
    /\ i = 1
    /\ results = <<>>
    /\ total_used = Zero
    /\ total_logical = Zero
    /\ total_estimated = Zero
    /\ pc = "idle"

CallEstimate ==
    /\ epc = "call"
    /\ \E fp \in FloatTies :
          ret' = calculate_estimate(call.used_gb, call.has_snapshots, call.config, fp)
    /\ epc' = "return"
    /\ UNCHANGED call
    /\ UNCHANGED batch

EstNext == CallEstimate

EstSpec == EstInit /\ [][EstNext]_vars

-----------------------------------------------------------------------------
(* main: detection of the clusters, then the loop over the VMs.             *)

Init ==
    /\ call = NoCall
    /\ ret = NoRet
    /\ epc = "main"
    /\ args \in [include_templates : BOOLEAN, include_powered_off : BOOLEAN]
    /\ clusters \in {[k \in DOMAIN s |-> [s[k] EXCEPT !.name = ClusterName(k)]] :
                        s \in SeqsUpTo(ClusterKinds, MaxClusters) \ {<<>>}}
    /\ vms \in SeqsUpTo(VMKinds(ClusterName(Len(clusters))), MaxVMs)
    /\ vsan_configs = EmptyMap
    /\ ci = 1
    /\ i = 1
    /\ results = <<>>
    /\ total_used = Zero
    /\ total_logical = Zero
    /\ total_estimated = Zero
    /\ pc = "clusters"

\* for cluster in clusters: vsan_configs[cluster.name] = detect_vsan_config(...)
DetectCluster ==
    /\ pc = "clusters"
    /\ ci <= Len(clusters)
    /\ vsan_configs' = (clusters[ci].name :> detect_vsan_config(clusters[ci]))
                       @@ vsan_configs
    /\ ci' = ci + 1
    /\ UNCHANGED <<call, ret, epc, args, clusters, vms, i, results, total_used,
                   total_logical, total_estimated, pc>>

\* print_cluster_summary, get_all_vms, results = [], totals = 0
CollectVMs ==
    /\ pc = "clusters"
    /\ ci > Len(clusters)
    /\ results' = <<>>
    /\ total_used' = Zero
    /\ total_logical' = Zero
    /\ total_estimated' = Zero
    /\ pc' = "vms"
    /\ UNCHANGED <<call, ret, epc, args, clusters, vms, vsan_configs, ci, i>>

\* The VM is skipped by the template or the power-state test of the loop.
Skipped(vm) ==
    \/ vm.config = "ok" /\ vm.template /\ ~args.include_templates
    \/ ~vm.poweredOn /\ ~args.include_powered_off

\* get_vm_storage_info calls calculate_estimate for this VM.
Estimates(vm) ==
    /\ vm.config = "ok"
    /\ ~(vm.storage = "raises" /\ vm.summary = "raises")
    /\ vm.cluster \in DOMAIN vsan_configs
    /\ vsan_configs[vm.cluster].is_vsan

\* Variant: total_logical accumulates used_gb instead of logical_gb.
ProcessVM_LogicalFromUsed ==
    /\ pc = "vms"
    /\ i <= Len(vms)
    /\ \E vm \in {vms[i]} :
       \E fp \in IF Estimates(vm) THEN FloatTies ELSE {CHOOSE t \in FloatTies : TRUE} :
         \E r \in {get_vm_storage_info(vm, vsan_configs, fp)} :
             IF Skipped(vm)
             THEN /\ i' = i + 1
                  /\ UNCHANGED <<call, ret, results, total_used, total_logical,
                                 total_estimated, pc>>
             ELSE /\ IF Estimates(vm)
                     THEN /\ call' = [used_gb |-> r.info.used_gb,
                                      has_snapshots |-> r.info.has_snapshots,
                                      config |-> vsan_configs[vm.cluster]]
                          /\ ret' = calculate_estimate(r.info.used_gb, r.info.has_snapshots,
                                                       vsan_configs[vm.cluster], fp)
                     ELSE UNCHANGED <<call, ret>>
                  /\ IF r.status \notin {"ok", "none"}
                     THEN /\ pc' = "exception"
                          /\ UNCHANGED <<i, results, total_used, total_logical,
                                         total_estimated>>
                     ELSE IF r.status = "ok" /\ RGreater(r.info.used_gb, Zero)
                     THEN /\ results' = Append(results, r.info)
                          /\ total_used' = RAdd(total_used, r.info.used_gb)
                          /\ total_logical' = RAdd(total_logical, r.info.used_gb)
                          /\ total_estimated' = RAdd(total_estimated, r.info.estimated_gb)
                          /\ i' = i + 1
                          /\ UNCHANGED pc
                     ELSE /\ i' = i + 1
                          /\ UNCHANGED <<results, total_used, total_logical,
                                         total_estimated, pc>>
    /\ UNCHANGED <<epc, args, clusters, vms, vsan_configs, ci>>

\* One iteration of "for vm in vms".  The directions of the float roundings
\* are drawn only when the iteration computes an estimate.
ProcessVM ==
    /\ pc = "vms"
    /\ i <= Len(vms)
    /\ \E vm \in {vms[i]} :
       \E fp \in IF Estimates(vm) THEN FloatTies ELSE {CHOOSE t \in FloatTies : TRUE} :
         \E r \in {get_vm_storage_info(vm, vsan_configs, fp)} :
             IF Skipped(vm)
             THEN /\ i' = i + 1
                  /\ UNCHANGED <<call, ret, results, total_used, total_logical,
                                 total_estimated, pc>>
             ELSE /\ IF Estimates(vm)
                     THEN /\ call' = [used_gb |-> r.info.used_gb,
                                      has_snapshots |-> r.info.has_snapshots,
                                      config |-> vsan_configs[vm.cluster]]
                          /\ ret' = calculate_estimate(r.info.used_gb, r.info.has_snapshots,
                                                       vsan_configs[vm.cluster], fp)
                     ELSE UNCHANGED <<call, ret>>
                  /\ IF r.status \notin {"ok", "none"}
                     THEN /\ pc' = "exception"
                          /\ UNCHANGED <<i, results, total_used, total_logical,
                                         total_estimated>>
                     ELSE IF r.status = "ok" /\ RGreater(r.info.used_gb, Zero)
                     THEN /\ results' = Append(results, r.info)
                          /\ total_used' = RAdd(total_used, r.info.used_gb)
                          /\ total_logical' = RAdd(total_logical, r.info.logical_gb)
                          /\ total_estimated' = RAdd(total_estimated, r.info.estimated_gb)
                          /\ i' = i + 1
                          /\ UNCHANGED pc
                     ELSE /\ i' = i + 1
                          /\ UNCHANGED <<results, total_used, total_logical,
                                         total_estimated, pc>>
    /\ UNCHANGED <<epc, args, clusters, vms, vsan_configs, ci>>

\* After the loop: results.sort(...) and the report.
Finish ==
    /\ pc = "vms"
    /\ i > Len(vms)
    /\ results' = SortByName(results)
    /\ pc' = "done"
    /\ UNCHANGED <<call, ret, epc, args, clusters, vms, vsan_configs, ci, i,
                   total_used, total_logical, total_estimated>>

Next == DetectCluster \/ CollectVMs \/ ProcessVM \/ Finish

Spec == Init /\ [][Next]_vars

-----------------------------------------------------------------------------
(* Properties of calculate_estimate, checked under EstSpec.                 *)

\* The values round(x, ndigits) can return for the exact value x.
Rounds(x, scale) == {round(x, scale, 0), round(x, scale, 1)}

RLeq(a, b) == ~RLess(b, a)
RAbs(a) == [n |-> Abs(a.n), d |-> a.d]

\* The call has returned a value.
Returned == epc = "return" /\ ret.status = "ok"

\* The policy is inside the documented domain.
ValidPolicy(c) ==
    /\ RLeq(One, c.raid_overhead)
    /\ RGreater(c.dedup_ratio, Zero)
    /\ RGreater(c.compression_ratio, Zero)

\* The exact logical size: used / raid_overhead, times 0.85 without reclaim.
ExactLogical ==
    IF call.config.trim_unmap_enabled
    THEN RDiv(call.used_gb, call.config.raid_overhead)
    ELSE RMul(RDiv(call.used_gb, call.config.raid_overhead), R(85, 100))

\* The factor of the swap and snapshot deflations of the call.
Deflation == IF call.has_snapshots THEN RMul(R(95, 100), R(90, 100)) ELSE R(95, 100)

\* C1: for a reported size >= 0 and raid_overhead >= 1.0 the returned logical
\* size is the reported size divided by raid_overhead, multiplied by 0.85
\* exactly when reclaim is not enabled, and rounded to 2 decimals once, at the
\* end; dedup, compression, swap and snapshots have no part in it.
C1_LogicalSize ==
    (epc = "return" /\ RLeq(Zero, call.used_gb) /\ RLeq(One, call.config.raid_overhead))
        => /\ ret.status = "ok"
           /\ ret.logical_gb \in Rounds(ExactLogical, 100)

C1_Witness ==
    /\ Returned
    /\ call.used_gb = R(100, 1)
    /\ call.config.raid_overhead = R(133, 100)
    /\ ~call.config.trim_unmap_enabled
    /\ call.config.dedup_enabled
    /\ call.has_snapshots
    /\ ret.logical_gb = R(6391, 100)

\* C2: a policy outside its domain (raid_overhead < 1.0 or a ratio <= 0) makes
\* the estimation fail with InvalidPolicy.
C2_InvalidPolicyRejected ==
    (epc = "return" /\ ~ValidPolicy(call.config)) => ret.status = "InvalidPolicy"

\* C3 as stated: with the identity policy the logical size and the target
\* size both equal the reported size, up to output rounding.
IdentityPolicy ==
    /\ call.config.raid_overhead = One
    /\ ~call.config.dedup_enabled /\ call.config.dedup_ratio = One
    /\ ~call.config.compression_enabled /\ call.config.compression_ratio = One
    /\ call.config.trim_unmap_enabled
    /\ ~call.has_snapshots

Close(a, b) == RLeq(RAbs(RSub(a, b)), R(1, 200))

C3_IdentityRoundTrip ==
    (epc = "return" /\ IdentityPolicy)
        => /\ ret.status = "ok"
           /\ Close(ret.logical_gb, call.used_gb)
           /\ Close(ret.estimated_gb, call.used_gb)

\* C3 amended: with the identity policy the logical size equals the reported
\* size and the target size equals 0.95 times the reported size (the swap
\* deflation), each rounded to 2 decimals.
C3_IdentityPolicySwapOnly ==
    (epc = "return" /\ IdentityPolicy)
        => /\ ret.status = "ok"
           /\ ret.logical_gb \in Rounds(call.used_gb, 100)
           /\ ret.estimated_gb \in Rounds(RMul(call.used_gb, R(95, 100)), 100)

C3_Witness ==
    /\ Returned
    /\ IdentityPolicy
    /\ call.used_gb = R(100, 1)
    /\ ret.logical_gb = R(100, 1)
    /\ ret.estimated_gb = R(95, 1)

\* C4: a reported size of 0 returns logical size 0, target size 0 and change
\* 0 as a normal result, whatever the policy values.
C4_ZeroReported ==
    (epc = "return" /\ call.used_gb = Zero)
        => /\ ret.status = "ok"
           /\ ret.logical_gb = Zero
           /\ ret.estimated_gb = Zero
           /\ ret.change_pct = Zero

\* C5 as stated: the logical size is multiplied by dedup_ratio *
\* compression_ratio when either ratio exceeds 1.0 and by nothing otherwise,
\* so the expansion depends on the two ratios only (ratios >= 1.0,
\* raid_overhead >= 1.0).
RatioExpansion ==
    IF RGreater(call.config.dedup_ratio, One) \/ RGreater(call.config.compression_ratio, One)
    THEN RMul(call.config.dedup_ratio, call.config.compression_ratio)
    ELSE One

C5_ExpansionByRatiosOnly ==
    (epc = "return" /\ ValidPolicy(call.config)
        /\ RLeq(One, call.config.dedup_ratio) /\ RLeq(One, call.config.compression_ratio))
        => ret.estimated_gb \in Rounds(RMul(RMul(ExactLogical, RatioExpansion), Deflation), 100)

\* C5 amended: the logical size is expanded for dedup only when dedup is
\* enabled and for compression only when compression is enabled: with neither
\* enabled nothing is multiplied in, whatever the ratios are, and when every
\* enabled feature has a ratio above 1.0 the multiplier is the product of the
\* ratios of the enabled features.
EnabledRatio(enabled, ratio) == IF enabled THEN ratio ELSE One

C5_ExpansionByEnabledFeatures ==
    (epc = "return" /\ ValidPolicy(call.config)
        /\ (call.config.dedup_enabled => RGreater(call.config.dedup_ratio, One))
        /\ (call.config.compression_enabled => RGreater(call.config.compression_ratio, One)))
        => ret.estimated_gb \in
              Rounds(RMul(RMul(ExactLogical,
                               RMul(EnabledRatio(call.config.dedup_enabled,
                                                 call.config.dedup_ratio),
                                    EnabledRatio(call.config.compression_enabled,
                                                 call.config.compression_ratio))),
                          Deflation), 100)

\* Dedup is off although a dedup ratio of 1.5 is reported: no expansion.
C5_Witness ==
    /\ Returned
    /\ call.used_gb = R(100, 1)
    /\ call.config.raid_overhead = R(2, 1)
    /\ ~call.config.dedup_enabled /\ call.config.dedup_ratio = R(3, 2)
    /\ ~call.config.compression_enabled
    /\ call.config.trim_unmap_enabled /\ ~call.has_snapshots
    /\ ret.estimated_gb = R(475, 10)

\* C6: the factor of an enabled feature is its measured ratio when that is
\* above 1.0 and the heuristic default otherwise (1.4 dedup, 1.25
\* compression); it is above 1.0, it is the factor the notes print, and a
\* ratio left at 1.0 (or any other value not above 1.0) does not make the
\* call fail.
HeuristicFactor(enabled, ratio, default) ==
    IF ~enabled THEN One ELSE IF RGreater(ratio, One) THEN ratio ELSE default

DedupFactor == HeuristicFactor(call.config.dedup_enabled, call.config.dedup_ratio, R(14, 10))
CompressFactor ==
    HeuristicFactor(call.config.compression_enabled, call.config.compression_ratio,
                    R(125, 100))

NotesWith(text) == {k \in DOMAIN ret.notes : ret.notes[k].text = text}

C6_MeasuredOrHeuristicFactor ==
    (epc = "return" /\ RLeq(One, call.config.raid_overhead))
        => /\ ret.status = "ok"
           /\ call.config.dedup_enabled => RGreater(DedupFactor, One)
           /\ call.config.compression_enabled => RGreater(CompressFactor, One)
           /\ ret.estimated_gb \in
                 Rounds(RMul(RMul(ExactLogical, RMul(DedupFactor, CompressFactor)),
                             Deflation), 100)
           /\ \A k \in NotesWith("Dedup expand x") : ret.notes[k].val = Fmt2(DedupFactor)
           /\ \A k \in NotesWith("Compress expand x") : ret.notes[k].val = Fmt2(CompressFactor)

\* Dedup enabled with the ratio left at 1.0, compression measured at 1.3.
C6_Witness ==
    /\ Returned
    /\ call.used_gb = R(100, 1)
    /\ call.config.raid_overhead = R(2, 1)
    /\ call.config.dedup_enabled /\ call.config.dedup_ratio = One
    /\ call.config.compression_enabled /\ call.config.compression_ratio = R(13, 10)
    /\ call.config.trim_unmap_enabled /\ call.has_snapshots
    /\ ret.estimated_gb = R(7781, 100)
    /\ NotesWith("Dedup expand x") # {}

\* C7: the target size is the expanded size times 0.95 on every call, times
\* 0.90 as well exactly when the VM has snapshots; the logical size carries
\* neither deflation.
C7_SwapAlwaysSnapshotIfPresent ==
    Returned
        => /\ ret.estimated_gb \in
                 Rounds(IF call.has_snapshots
                        THEN RMul(RMul(Expanded(call.used_gb, call.config), R(95, 100)),
                                  R(90, 100))
                        ELSE RMul(Expanded(call.used_gb, call.config), R(95, 100)), 100)
           /\ ret.logical_gb \in Rounds(ExactLogical, 100)

C7_Witness ==
    /\ Returned
    /\ call.used_gb = R(1000, 1)
    /\ call.config.raid_overhead = R(4, 1)
    /\ call.config.dedup_enabled /\ call.config.dedup_ratio = R(3, 2)
    /\ ~call.config.compression_enabled
    /\ call.config.trim_unmap_enabled /\ call.has_snapshots
    /\ ret.logical_gb = R(250, 1)
    /\ ret.estimated_gb = R(32062, 100)

\* C8: the percentage change is (target - reported) / reported * 100, rounded
\* to one decimal, taken against the reported size, and 0 when the reported
\* size is 0.
C8_ChangeAgainstReported ==
    Returned
        => ret.change_pct \in
              (IF call.used_gb = Zero THEN {Zero}
               ELSE Rounds(RMul(RDiv(RSub(ret.estimated_gb, call.used_gb), call.used_gb),
                                R(100, 1)), 10))

\* Against the logical size (50) the change would be -5.0, not -52.5.
C8_Witness ==
    /\ Returned
    /\ call.used_gb = R(100, 1)
    /\ call.config.raid_overhead = R(2, 1)
    /\ ret.logical_gb = R(50, 1)
    /\ ret.estimated_gb = R(475, 10)
    /\ ret.change_pct = R(0 - 525, 10)

\* C9: the notes name every adjustment applied to the size, once each and in
\* the order applied: RAID removal, reclaim adjustment, dedup expansion,
\* compression expansion, swap deflation, snapshot deflation.
AppliedAdjustments ==
    <<"Primary data (/ RAID)">>
    \o (IF call.config.trim_unmap_enabled THEN <<>> ELSE <<"TRIM/UNMAP adj">>)
    \o (IF call.config.dedup_enabled THEN <<"Dedup expand x">> ELSE <<>>)
    \o (IF call.config.compression_enabled THEN <<"Compress expand x">> ELSE <<>>)
    \o <<"Swap deflation">>
    \o (IF call.has_snapshots THEN <<"Snapshot consolidation">> ELSE <<>>)

C9_NotesListEveryAdjustment ==
    Returned => [k \in DOMAIN ret.notes |-> ret.notes[k].text] = AppliedAdjustments

\* The same call with raid_overhead replaced by ro, roundings in direction fp.
WithOverhead(ro, fp) ==
    calculate_estimate(call.used_gb, call.has_snapshots,
                       [call.config EXCEPT !.raid_overhead = ro], fp)

\* The exact logical size of the call with raid_overhead replaced by ro.
ExactLogicalWith(ro) ==
    IF call.config.trim_unmap_enabled
    THEN RDiv(call.used_gb, ro)
    ELSE RMul(RDiv(call.used_gb, ro), R(85, 100))

\* The valid overheads above the one of the call.
LargerOverheads == {ro \in RaidValues : RGreater(ro, call.config.raid_overhead)}

\* C11 as stated: for any reported size and two valid policies that differ
\* only in raid_overhead, the larger raid_overhead returns a strictly smaller
\* logical size.
C11_StrictlyDecreasing ==
    (Returned /\ ValidPolicy(call.config))
        => \A ro \in LargerOverheads : \A fp \in FloatTies :
              RLess(WithOverhead(ro, fp).logical_gb, ret.logical_gb)

\* C11 amended: the larger raid_overhead never returns a larger logical size;
\* it returns a strictly smaller one whenever the unrounded logical sizes are
\* at least 0.02 GB apart, and the same one (0) for a reported size of 0.
C11_NeverLargerStrictBeyondRounding ==
    (Returned /\ ValidPolicy(call.config))
        => \A ro \in LargerOverheads : \A fp \in FloatTies :
              /\ WithOverhead(ro, fp).status = "ok"
              /\ RLeq(WithOverhead(ro, fp).logical_gb, ret.logical_gb)
              /\ RLeq(R(2, 100), RSub(ExactLogical, ExactLogicalWith(ro)))
                    => RLess(WithOverhead(ro, fp).logical_gb, ret.logical_gb)
              /\ call.used_gb = Zero => WithOverhead(ro, fp).logical_gb = ret.logical_gb

\* 100 GB under RAID-5 (1.33) gives 75.19, under RAID-6 (1.5) 66.67.
C11_Witness ==
    /\ Returned
    /\ call.used_gb = R(100, 1)
    /\ call.config.raid_overhead = R(133, 100)
    /\ call.config.trim_unmap_enabled
    /\ ret.logical_gb = R(7519, 100)
    /\ R(3, 2) \in LargerOverheads
    /\ \A fp \in FloatTies : WithOverhead(R(3, 2), fp).logical_gb = R(6667, 100)

-----------------------------------------------------------------------------
(* Properties of the batch loop, checked under Spec.                        *)

\* get_vm_storage_info raises for this VM.
Fails(vm) == vm.config = "ok" /\ vm.storage = "raises" /\ vm.summary = "raises"

\* used_gb of the VM is above 0.
HasUsed(vm) ==
    IF vm.storage = "ok"
    THEN \E k \in DOMAIN vm.perDatastoreUsage : vm.perDatastoreUsage[k].committed > 0
    ELSE vm.storage = "raises" /\ vm.summary = "ok" /\ vm.summary_committed > 0

\* The VM passes the template and power-state filters, has a used size above
\* 0 and its own estimation does not fail.
Eligible(vm) ==
    /\ vm.config = "ok"
    /\ ~vm.template \/ args.include_templates
    /\ vm.poweredOn \/ args.include_powered_off
    /\ HasUsed(vm)
    /\ ~Fails(vm)

\* C10: when the run has ended, every VM that passes the filters, has a used
\* size above 0 and does not itself fail is in the results, also when the
\* estimation of another VM failed.
C10_FailureDoesNotAbortBatch ==
    pc \in {"done", "exception"}
        => Len(results) = Cardinality({k \in DOMAIN vms : Eligible(vms[k])})


\* The RAID policy of the cluster cannot be identified: the read raises, there
\* is no failures-to-tolerate setting, or the combination is unsupported.
PolicyUnidentified(cluster) ==
    \/ cluster.policy_raises
    \/ cluster.ftt = 0 - 1
    \/ cluster.spaceEfficiency /\ cluster.ftt \notin {1, 2}
    \/ ~cluster.spaceEfficiency /\ cluster.ftt \notin {1, 2, 3}

\* The cluster is a vSAN cluster, so its VMs are estimated with its policy.
OnVSAN(cluster) == cluster.configurationEx = "ok" /\ cluster.vsan_enabled

\* The same cluster with its policy readable and set to RAID-1 (FTT=1).
DetectedMirror(cluster) ==
    [cluster EXCEPT !.ftt = 1, !.spaceEfficiency = FALSE, !.policy_raises = FALSE]

\* The clusters whose detection has run.
DetectedClusters == {k \in DOMAIN clusters : clusters[k].name \in DOMAIN vsan_configs}

\* C12: when the RAID policy of a cluster cannot be identified, detection
\* resolves to RAID-1 (FTT=1) with overhead 2.0, and the notes of every
\* estimate computed with that default differ from the notes the same VM gets
\* when the cluster's policy is detected as RAID-1 (FTT=1).
C12_DefaultSurfacedInNotes ==
    \A k \in DetectedClusters :
        (OnVSAN(clusters[k]) /\ PolicyUnidentified(clusters[k]))
            => /\ vsan_configs[clusters[k].name].raid_policy = "RAID-1 (FTT=1)"
               /\ vsan_configs[clusters[k].name].raid_overhead = R(2, 1)
               /\ \A j \in DOMAIN results :
                     results[j].cluster = clusters[k].name
                        => results[j].notes #
                              notes_parts(results[j].has_snapshots,
                                          detect_vsan_config(DetectedMirror(clusters[k])))

\* The sum of one field over a list of records.
RECURSIVE SumField(_, _)
SumField(seq, field) ==
    IF seq = <<>> THEN Zero
    ELSE RAdd(SumField(SubSeq(seq, 1, Len(seq) - 1), field), seq[Len(seq)][field])

\* The VM has a config, passes the template and power-state filters and has
\* a used size above 0.
PassesFilters(vm) ==
    /\ vm.config = "ok"
    /\ ~vm.template \/ args.include_templates
    /\ vm.poweredOn \/ args.include_powered_off
    /\ HasUsed(vm)

\* The VMs the loop has processed so far, and those of them that pass.
Processed == SubSeq(vms, 1, i - 1)
Kept == SelectSeq(Processed, PassesFilters)

NamesOf(seq) == [k \in DOMAIN seq |-> seq[k].name]

\* The totals are the sums over results, and results holds exactly the
\* processed VMs that pass, in processing order (by name once sorted).
TotalsAndResultsMatch ==
    /\ total_used = SumField(results, "used_gb")
    /\ total_logical = SumField(results, "logical_gb")
    /\ total_estimated = SumField(results, "estimated_gb")
    /\ NamesOf(results) = NamesOf(IF pc = "done" THEN SortByName(Kept) ELSE Kept)
    /\ \A k \in DOMAIN results : RGreater(results[k].used_gb, Zero)

\* An iteration over a VM that does not pass leaves results and totals alone.
SkipChangesNothing ==
    (pc = "vms" /\ i <= Len(vms) /\ i' = i + 1 /\ ~PassesFilters(vms[i]))
        => UNCHANGED <<results, total_used, total_logical, total_estimated>>

\* C13: after any prefix of the VM list, the three totals equal the sums of
\* used_gb, logical_gb and estimated_gb over the records in results, results
\* holds exactly the processed VMs that have a config, pass the template and
\* power-state filters and have used_gb > 0, and a VM that does not pass
\* changes neither results nor any total.
C13_TotalsMatchResults == []TotalsAndResultsMatch /\ [][SkipChangesNothing]_vars

\* Two VMs processed: the first kept, on a vSAN cluster, so that its logical
\* size differs from its used size; the second skipped.
C13_Witness ==
    /\ pc = "vms"
    /\ i = 3
    /\ Len(results) = 1
    /\ PassesFilters(vms[1])
    /\ ~PassesFilters(vms[2])
    /\ total_logical # total_used
    /\ total_estimated = results[1].estimated_gb
=============================================================================
